---- MODULE Spec2Model ----
(***************************************************************************)
(* Model of the two Red-DiscordBot cogs of ntfy-cog: IFTTT (ifttt.py) and  *)
(* NTFY (ntfy.py).  Both forward chat messages to a webhook after a        *)
(* sanitising step and a per-channel cooldown check.                       *)
(*                                                                         *)
(* Text is a sequence of one-character strings.  Time is a whole number of *)
(* seconds read from one clock (datetime.now()).  A handler runs           *)
(* atomically from one await to the next; every config read and the HTTP   *)
(* POST are suspension points at which the other handlers may run.         *)
(***************************************************************************)
EXTENDS Integers, Sequences, FiniteSets, TLC

VARIABLES variant, config, last_sent, now, procs, input, output

vars == <<variant, config, last_sent, now, procs, input, output>>

(***************************************************************************)
(* Bounds of the model.                                                    *)
(***************************************************************************)
MaxInputLen == 6
PadSlack == 2
MaxTailLen == 2

(***************************************************************************)
(* Text helpers.                                                           *)
(***************************************************************************)
\* Optional[str]: None is a one-element tuple no text of characters equals.
None == <<"None">>

\* The characters str.split() treats as separators (two of them modelled).
Whitespace == {" ", "\t"}

Alphabet == {"<", ">", " ", "\t", "a"}

\* [:2000]
LengthLimit == 2000

Min(a, b) == IF a < b THEN a ELSE b

\* The pattern <[^<>]+> instead: a tag may not contain '<' either.
MatchEndNoNested(s, j) ==
    IF j + 2 > Len(s) \/ s[j] # "<" \/ s[j + 1] \in {"<", ">"}
    THEN 0
    ELSE IF \E q \in (j + 2)..Len(s) : s[q] \in {"<", ">"}
         THEN LET q == CHOOSE q \in (j + 2)..Len(s) :
                           s[q] \in {"<", ">"}
                           /\ \A k \in (j + 2)..(q - 1) : s[k] \notin {"<", ">"}
              IN  IF s[q] = ">" THEN q ELSE 0
         ELSE 0

\* Index of the '>' that closes a match of <[^>]+> starting at the '<' at j,
\* or 0 when the pattern does not match at j: [^>]+ needs at least one
\* character and stops at the first '>' after it.
MatchEnd(s, j) ==
    IF j + 2 > Len(s) \/ s[j] # "<" \/ s[j + 1] = ">"
    THEN 0
    ELSE IF \E q \in (j + 2)..Len(s) : s[q] = ">"
         THEN CHOOSE q \in (j + 2)..Len(s) :
                  s[q] = ">" /\ \A k \in (j + 2)..(q - 1) : s[k] # ">"
         ELSE 0

\* re.sub(r"<[^>]+>", "", s) from position i on: the leftmost match at or
\* after i is dropped, the text before it is kept, and the scan goes on
\* after the match's last character.
RECURSIVE StripTagsFrom(_, _)
StripTagsFrom(s, i) ==
    IF \E j \in i..Len(s) : MatchEnd(s, j) # 0
    THEN LET j == CHOOSE j \in i..Len(s) :
                      MatchEnd(s, j) # 0
                      /\ \A k \in i..(j - 1) : MatchEnd(s, k) = 0
         IN  SubSeq(s, i, j - 1) \o StripTagsFrom(s, MatchEnd(s, j) + 1)
    ELSE SubSeq(s, i, Len(s))

\* re.sub(..., count=1): only the leftmost match is dropped
StripTagsOnce(s) ==
    IF \E j \in 1..Len(s) : MatchEnd(s, j) # 0
    THEN LET j == CHOOSE j \in 1..Len(s) :
                      MatchEnd(s, j) # 0
                      /\ \A k \in 1..(j - 1) : MatchEnd(s, k) = 0
         IN  SubSeq(s, 1, j - 1) \o SubSeq(s, MatchEnd(s, j) + 1, Len(s))
    ELSE s

StripTags(s) == StripTagsFrom(s, 1)

\* s.split() from position i on: the maximal runs of non-whitespace.
RECURSIVE SplitFrom(_, _)
SplitFrom(s, i) ==
    IF \E j \in i..Len(s) : s[j] \notin Whitespace
    THEN LET start == CHOOSE j \in i..Len(s) :
                          s[j] \notin Whitespace
                          /\ \A k \in i..(j - 1) : s[k] \in Whitespace
             stop  == IF \E j \in (start + 1)..Len(s) : s[j] \in Whitespace
                      THEN CHOOSE j \in (start + 1)..Len(s) :
                               s[j] \in Whitespace
                               /\ \A k \in (start + 1)..(j - 1) :
                                      s[k] \notin Whitespace
                      ELSE Len(s) + 1
         IN  <<SubSeq(s, start, stop - 1)>> \o SplitFrom(s, stop)
    ELSE <<>>

\* " ".join(words)
RECURSIVE JoinWords(_)
JoinWords(words) ==
    IF words = <<>> THEN <<>>
    ELSE IF Len(words) = 1 THEN words[1]
    ELSE words[1] \o <<" ">> \o JoinWords(Tail(words))

CollapseWhitespace(s) == JoinWords(SplitFrom(s, 1))

\* [:2001] instead of [:2000]
TruncateOneMore(s) == SubSeq(s, 1, Min(Len(s), LengthLimit + 1))

Truncate(s) == SubSeq(s, 1, Min(Len(s), LengthLimit))

\* IFTTT._sanitise
sanitise(content) ==
    IF content = None \/ content = <<>>
    THEN None
    ELSE LET cleaned == Truncate(CollapseWhitespace(StripTags(content)))
         IN  IF cleaned = <<>> THEN None ELSE cleaned

\* NTFY.sanitize_message
sanitize_message(content) ==
    IF content = None \/ content = <<>>
    THEN None
    ELSE LET clean_content == Truncate(CollapseWhitespace(StripTags(content)))
         IN  IF clean_content # <<>> THEN clean_content ELSE None

Sanitize(v, content) ==
    IF v = "IFTTT" THEN sanitise(content) ELSE sanitize_message(content)

(***************************************************************************)
(* Inputs of the sanitiser: every text over Alphabet of at most            *)
(* MaxInputLen characters, the absent text, and long texts around the      *)
(* length limit (a run of letters followed by a short tail).               *)
(***************************************************************************)
Texts(n) == UNION {[1..k -> Alphabet] : k \in 0..n}

Pad(n) == [i \in 1..n |-> "a"]

LongTexts ==
    {Pad(n) \o t : n \in (LengthLimit - PadSlack)..LengthLimit,
                   t \in Texts(MaxTailLen)}

SanitizerInputs == Texts(MaxInputLen) \cup LongTexts \cup {None}

Pending == <<"Pending">>


(***************************************************************************)
(* The sanitiser on its own: the input is drawn at the start and          *)
(* sanitised once.                                                         *)
(***************************************************************************)
Variants == {"IFTTT", "NTFY"}

SanitiseInput ==
    /\ output = Pending
    /\ output' = Sanitize(variant, input)
    /\ UNCHANGED <<variant, config, last_sent, now, procs, input>>

(***************************************************************************)
(* Bounds of the forwarding model.                                         *)
(***************************************************************************)
MaxTime == 31
MaxSeconds == 31

(***************************************************************************)
(* Guild settings, registry, clock.                                        *)
(***************************************************************************)
\* rate_limit=30 in register_guild
DefaultRateLimit == 30

\* if seconds < 30: seconds = 30
MinRateLimit == 30

\* allowed_bot=None
NoBot == 0

\* self.last_sent.get(channel_id) of a channel without an entry
NoTime == -1

\* no response yet / session.post raised instead of answering
NoResponse == 0
TransportError == -1

\* One text channel of the guild; the registry is keyed by channel id.
Channels == {1}

Procs == {"h1", "h2"}

Bots == {1, 2}
Humans == {3}
Authors == Bots \cup Humans

\* The instants at which the clock is read: the start, and the seconds
\* around the end of the shortest cooldown.
Instants == {t \in 0..MaxTime : t = 0 \/ t >= MinRateLimit - 1}

SecondsInputs == {-1, MinRateLimit - 1, MinRateLimit, MaxSeconds}

HttpsUrl == <<"h", "t", "t", "p", "s", ":", "/", "/", "n">>
HttpUrl == <<"h", "t", "t", "p", ":", "/", "/", "n">>
UrlInputs == {HttpsUrl, HttpUrl}

Statuses == {200, 400, 500}
Responses == Statuses \cup {TransportError}

MessageTexts == {<<"<", "b", ">">>, <<"h", " ", " ", "<", "b", ">", "i">>}

(***************************************************************************)
(* JSON.  A JSON text is a sequence of tokens.  A parsed value is a record *)
(* of its Python type, its text (str, int) and its items (list: the        *)
(* elements; dict: the <<key, value>> pairs in insertion order).           *)
(***************************************************************************)
Tok(k) == [k |-> k, s |-> ""]
StrTok(s) == [k |-> "str", s |-> s]
NumTok(s) == [k |-> "num", s |-> s]

JStr(s) == [type |-> "str", s |-> s, items |-> <<>>]
JInt(s) == [type |-> "int", s |-> s, items |-> <<>>]
JList(items) == [type |-> "list", s |-> "", items |-> items]
JDict(items) == [type |-> "dict", s |-> "", items |-> items]

\* d[key] = value on the pairs of a dict
DictSet(items, key, value) ==
    IF \E i \in 1..Len(items) : items[i][1] = key
    THEN [i \in 1..Len(items) |->
              IF items[i][1] = key THEN <<key, value>> ELSE items[i]]
    ELSE Append(items, <<key, value>>)

\* json.JSONDecodeError
ParseFail == [ok |-> FALSE, val |-> JStr(""), next |-> 0]

ParseOk(val, next) == [ok |-> TRUE, val |-> val, next |-> next]

RECURSIVE ParseValue(_, _), ParseElements(_, _, _), ParseMembers(_, _, _)

\* The JSON value that starts at token i.
ParseValue(ts, i) ==
    IF i > Len(ts) THEN ParseFail
    ELSE IF ts[i].k = "str" THEN ParseOk(JStr(ts[i].s), i + 1)
    ELSE IF ts[i].k = "num" THEN ParseOk(JInt(ts[i].s), i + 1)
    ELSE IF ts[i].k = "["
         THEN IF i + 1 <= Len(ts) /\ ts[i + 1].k = "]"
              THEN ParseOk(JList(<<>>), i + 2)
              ELSE ParseElements(ts, i + 1, <<>>)
    ELSE IF ts[i].k = "{"
         THEN IF i + 1 <= Len(ts) /\ ts[i + 1].k = "}"
              THEN ParseOk(JDict(<<>>), i + 2)
              ELSE ParseMembers(ts, i + 1, <<>>)
    ELSE ParseFail

\* The elements of a list from token i to the closing bracket.
ParseElements(ts, i, acc) ==
    LET r == ParseValue(ts, i)
    IN  IF ~r.ok \/ r.next > Len(ts) THEN ParseFail
        ELSE IF ts[r.next].k = ","
             THEN ParseElements(ts, r.next + 1, Append(acc, r.val))
        ELSE IF ts[r.next].k = "]"
             THEN ParseOk(JList(Append(acc, r.val)), r.next + 1)
        ELSE ParseFail

\* The "key": value members of an object from token i to the closing brace;
\* a repeated key keeps its place and takes the later value.
ParseMembers(ts, i, acc) ==
    IF i + 1 > Len(ts) \/ ts[i].k # "str" \/ ts[i + 1].k # ":" THEN ParseFail
    ELSE LET r == ParseValue(ts, i + 2)
         IN  IF ~r.ok \/ r.next > Len(ts) THEN ParseFail
             ELSE IF ts[r.next].k = ","
                  THEN ParseMembers(ts, r.next + 1,
                                    DictSet(acc, ts[i].s, r.val))
             ELSE IF ts[r.next].k = "}"
                  THEN ParseOk(JDict(DictSet(acc, ts[i].s, r.val)), r.next + 1)
             ELSE ParseFail

\* json.loads: the whole text is one value, or JSONDecodeError
json_loads(ts) ==
    LET r == ParseValue(ts, 1)
    IN  IF r.ok /\ r.next = Len(ts) + 1 THEN r ELSE ParseFail

\* The arguments given to the headers command.
FlatHeaders ==
    <<Tok("{"), StrTok("Title"), Tok(":"), StrTok("x"), Tok(","),
      StrTok("Authorization"), Tok(":"), StrTok("y"), Tok("}")>>
NumberHeaders ==
    <<Tok("{"), StrTok("Priority"), Tok(":"), NumTok("5"), Tok("}")>>
NestedHeaders ==
    <<Tok("{"), StrTok("Tags"), Tok(":"),
      Tok("{"), StrTok("k"), Tok(":"), StrTok("v"), Tok("}"), Tok("}")>>
ListHeaders == <<Tok("["), StrTok("x"), Tok(","), NumTok("5"), Tok("]")>>
StringHeaders == <<StrTok("x")>>
CutHeaders == <<Tok("{"), StrTok("Title"), Tok(":"), StrTok("x")>>

HeaderInputs ==
    {FlatHeaders, NumberHeaders, NestedHeaders, ListHeaders, StringHeaders,
     CutHeaders}

\* The arguments given to the token command; "" is no token.
TokenInputs == {"", "tk"}

\* register_guild(...); headers and auth_token are settings of NTFY only
DefaultGuild ==
    [url |-> <<>>, rate_limit |-> DefaultRateLimit,
     allowed_bot |-> NoBot, enabled |-> TRUE,
     headers |-> JDict(<<>>), auth_token |-> ""]

\* guild.name and author.display_name
GuildName == "guild"
DisplayName(a) == <<"member", a>>

\* The arguments of session.post besides the URL: json= (IFTTT), data= and
\* headers= (NTFY).
NoJson == [value1 |-> "", value2 |-> <<>>, value3 |-> None]
NoRequest == [json |-> NoJson, data |-> None, headers |-> <<>>]

\* payload = {"value1": guild.name, "value2": author_name, "value3": content}
IftttRequest(author, content) ==
    [NoRequest EXCEPT !.json = [value1 |-> GuildName,
                                value2 |-> DisplayName(author),
                                value3 |-> content]]

\* the Authorization header set whatever the token is
RequestHeadersAlways(headers, auth_token) ==
    DictSet(headers, "Authorization", JStr("Bearer " \o auth_token))

\* if auth_token: headers["Authorization"] = f"Bearer {auth_token}"
RequestHeaders(headers, auth_token) ==
    IF auth_token # ""
    THEN DictSet(headers, "Authorization", JStr("Bearer " \o auth_token))
    ELSE headers

\* session.post(ntfy_url, data=clean_content, headers=headers)
NtfyRequest(clean_content, headers, auth_token) ==
    [NoRequest EXCEPT !.data = clean_content,
                      !.headers = RequestHeaders(headers, auth_token)]

\* message.author.bot
IsBot(a) == a \in Bots

\* dict.get
Get(d, ch) == IF ch \in DOMAIN d THEN d[ch] ELSE NoTime

\* self.last_sent[channel_id] = datetime.now()
Record(d, ch, t) ==
    [c \in DOMAIN d \cup {ch} |-> IF c = ch THEN t ELSE d[c]]

\* `<=` instead of `<`
RateLimitedInclusive(last, t, rate_limit) ==
    last # NoTime /\ t - last <= rate_limit

\* last_sent and (datetime.now() - last_sent) < timedelta(seconds=rate_limit)
RateLimited(last, t, rate_limit) == last # NoTime /\ t - last < rate_limit

\* resp.status >= 400
IsError(status) == status >= 400

\* the floor applied one second too low
ClampOneLow(seconds) ==
    IF seconds < MinRateLimit - 1 THEN MinRateLimit ELSE seconds

\* if seconds < 30: seconds = 30
Clamp(seconds) == IF seconds < MinRateLimit THEN MinRateLimit ELSE seconds

\* url.startswith("http")
StartsWithHttp(url) ==
    Len(url) >= 4 /\ SubSeq(url, 1, 4) = SubSeq(HttpsUrl, 1, 4)

\* url.startswith("https://")
StartsWithHttps(url) ==
    Len(url) >= 8 /\ SubSeq(url, 1, 8) = SubSeq(HttpsUrl, 1, 8)

\* The reply of the url command: error(...) or info(...)
CmdUrlReply(url) == IF StartsWithHttps(url) THEN "info" ELSE "error"

\* only `not allowed_bot`: the author's id is not compared
BotRejectedWhenUnset(allowed_bot, author) == allowed_bot = NoBot

\* not allowed_bot or message.author.id != allowed_bot
BotRejected(allowed_bot, author) == allowed_bot = NoBot \/ author # allowed_bot

(***************************************************************************)
(* A handler in flight: the coroutine's position and its locals.           *)
(***************************************************************************)
Idle ==
    [op |-> "idle", pc |-> "idle", ch |-> 0, author |-> 0,
     is_command |-> FALSE, content |-> None, clean |-> None,
     snap |-> NoTime, current |-> FALSE, url |-> <<>>,
     headers |-> <<>>, request |-> NoRequest,
     resp |-> NoResponse, reply |-> "none"]

\* The handler has finished with `reply`; its other locals are gone.
Done(h, reply) ==
    [Idle EXCEPT !.op = h.op, !.pc = "done", !.ch = h.ch,
                 !.is_command = h.is_command, !.resp = h.resp,
                 !.reply = reply]

Init ==
    /\ variant \in Variants
    /\ config = DefaultGuild
    /\ last_sent = <<>>
    /\ now = 0
    /\ procs = [p \in Procs |-> Idle]
    /\ input = None
    /\ output = Pending

InitSanitise ==
    /\ variant \in Variants
    /\ config = DefaultGuild
    /\ last_sent = <<>>
    /\ now = 0
    /\ procs = [p \in Procs |-> Idle]
    /\ input \in SanitizerInputs
    /\ output = Pending

NextSanitise == SanitiseInput

SpecSanitise == InitSanitise /\ [][NextSanitise]_vars


(***************************************************************************)
(* The forwarding model.  Each action below completes the await a handler  *)
(* is suspended in and runs the handler up to its next await.              *)
(***************************************************************************)
Step(p, h) ==
    /\ procs' = [procs EXCEPT ![p] = h]
    /\ UNCHANGED <<variant, config, last_sent, now, input, output>>

\* _cmd_send after _post_to_ifttt returned: `if ctx.channel.id in self.last_sent`
SendReport(d, ch) == IF ch \in DOMAIN d THEN "success" ELSE "not_sent"

\* every answered POST counts, whatever its status
DeliveredWhenAnswered(r) == r # TransportError

\* The branch of the response handler that records the send: the POST was
\* answered (no exception) with a status that is not >= 400.
Delivered(r) == r # TransportError /\ ~IsError(r)

\* a failed POST drops the channel's entry
AfterResponseClearing(d, ch, t, r) ==
    IF Delivered(r) THEN Record(d, ch, t)
    ELSE [c \in DOMAIN d \ {ch} |-> d[c]]

\* The registry after the response r to a POST for channel ch at time t.
AfterResponse(d, ch, t, r) == IF Delivered(r) THEN Record(d, ch, t) ELSE d

\* sanitising inside send_to_ntfy / send_ntfy, then on to the URL read
NtfySanitise(h) ==
    LET clean_content == sanitize_message(h.content)
    IN  IF clean_content = None
        THEN Done(h, IF h.op = "send" THEN "invalid" ELSE "returned")
        ELSE [h EXCEPT !.pc = "url", !.clean = clean_content]

\* _post_to_ifttt returned without posting
IftttGiveUp(h, d) ==
    Done(h, IF h.op = "send" THEN SendReport(d, h.ch) ELSE "returned")

\* A new handler runs in the first free coroutine slot.
FreeSlot(p) ==
    /\ procs[p].pc = "idle"
    /\ p = "h2" => procs["h1"].pc # "idle"

\* on_message up to its first awaits: guild check, enabled, author.bot
OnMessageStart(h, in_guild, enabled) ==
    IF ~in_guild THEN Done(h, "returned")
    ELSE IF ~enabled THEN Done(h, "returned")
    ELSE IF IsBot(h.author) THEN [h EXCEPT !.pc = "allowed_bot"]
    ELSE [h EXCEPT !.pc = "get_context"]

OnMessage(p, in_guild, ch, a, c) ==
    /\ FreeSlot(p)
    /\ Step(p, OnMessageStart(
                   [Idle EXCEPT !.op = "on_message", !.ch = ch, !.author = a,
                                !.content = c],
                   in_guild, config.enabled))

\* on_message: allowed_bot read, `if not allowed_bot or author.id != allowed_bot`
BotFilter(h, allowed_bot) ==
    IF BotRejected(allowed_bot, h.author)
    THEN Done(h, "returned")
    ELSE [h EXCEPT !.pc = "get_context"]

AllowedBot(p) ==
    /\ procs[p].pc = "allowed_bot"
    /\ Step(p, BotFilter(procs[p], config.allowed_bot))

\* on_message without the `valid` test
CommandFilterSkipped(h, raises, valid) ==
    LET g == [h EXCEPT !.is_command = valid]
    IN  IF raises THEN Done(h, "raised")
        ELSE IF variant = "IFTTT"
             THEN LET clean == sanitise(h.content)
                  IN  IF clean = None THEN Done(g, "returned")
                      ELSE [g EXCEPT !.pc = "rate_limit", !.clean = clean]
             ELSE [g EXCEPT !.pc = "enabled"]

\* on_message: `if await self.bot.get_context(message).valid: return`, then
\* the call of the forwarder.  `.valid` is looked up on what get_context
\* returns before it is awaited: with a host whose get_context is a
\* coroutine function the lookup raises AttributeError (raises = TRUE).
\* Otherwise valid says whether the host takes the message for a command.
CommandFilter(h, raises, valid) ==
    LET g == [h EXCEPT !.is_command = valid]
    IN  IF raises THEN Done(h, "raised")
        ELSE IF g.is_command THEN Done(g, "returned")
        ELSE IF variant = "IFTTT"
             THEN LET clean == sanitise(h.content)
                  IN  IF clean = None THEN Done(g, "returned")
                      ELSE [g EXCEPT !.pc = "rate_limit", !.clean = clean]
             ELSE [g EXCEPT !.pc = "enabled"]

GetContext(p) ==
    /\ procs[p].pc = "get_context"
    /\ \E raises \in BOOLEAN, valid \in BOOLEAN :
           Step(p, CommandFilter(procs[p], raises, valid))

\* send_to_ntfy: enabled read again, then `last_sent = self.last_sent.get(...)`
SendToNtfyEnabled(p) ==
    /\ procs[p].pc = "enabled"
    /\ Step(p, IF ~config.enabled
               THEN Done(procs[p], "returned")
               ELSE [procs[p] EXCEPT !.pc = "rate_limit",
                                     !.snap = Get(last_sent, procs[p].ch)])

\* The cooldown check, after the rate_limit read.  _post_to_ifttt reads the
\* registry after that read; send_to_ntfy and send_ntfy read it before.
CooldownCheck(h, d, t, rate_limit) ==
    LET last == IF variant = "IFTTT" THEN Get(d, h.ch) ELSE h.snap
        g    == [h EXCEPT !.snap = NoTime]
    IN  IF RateLimited(last, t, rate_limit)
        THEN IF variant = "IFTTT" THEN IftttGiveUp(g, d)
             ELSE Done(g, IF h.op = "send" THEN "rate_limited" ELSE "returned")
        ELSE IF variant = "IFTTT" THEN [g EXCEPT !.pc = "url"]
             ELSE IF h.op = "on_message" /\ IsBot(h.author)
                  THEN [g EXCEPT !.pc = "allowed_bot2"]
                  ELSE NtfySanitise(g)

\* the cooldown check that also records the time of the check
RateLimitReserving(p) ==
    /\ procs[p].pc = "rate_limit"
    /\ procs' = [procs EXCEPT ![p] =
                    CooldownCheck(procs[p], last_sent, now, config.rate_limit)]
    /\ last_sent' = Record(last_sent, procs[p].ch, now)
    /\ UNCHANGED <<variant, config, now, input, output>>

RateLimit(p) ==
    /\ procs[p].pc = "rate_limit"
    /\ Step(p, CooldownCheck(procs[p], last_sent, now, config.rate_limit))

\* send_to_ntfy: the bot check once more, then sanitising
AllowedBot2(p) ==
    /\ procs[p].pc = "allowed_bot2"
    /\ Step(p, IF BotRejected(config.allowed_bot, procs[p].author)
               THEN Done(procs[p], "returned")
               ELSE NtfySanitise(procs[p]))

\* The URL read; with a URL set IFTTT issues the POST and NTFY goes on to
\* read the headers.
IssuePost(h, url, d) ==
    IF url = <<>>
    THEN IF variant = "IFTTT" THEN IftttGiveUp(h, d)
         ELSE Done(h, IF h.op = "send" THEN "not_configured" ELSE "returned")
    ELSE IF variant = "IFTTT"
         THEN [h EXCEPT !.pc = "post", !.url = url,
                        !.request = IftttRequest(h.author, h.clean)]
         ELSE [h EXCEPT !.pc = "headers", !.url = url]

Url(p) ==
    /\ procs[p].pc = "url"
    /\ Step(p, IssuePost(procs[p], config.url, last_sent))

\* headers = await self.config.guild(guild).headers()
Headers(p) ==
    /\ procs[p].pc = "headers"
    /\ Step(p, [procs[p] EXCEPT !.pc = "auth_token",
                                !.headers = config.headers.items])

\* auth_token = await ...auth_token(), then the POST is issued
AuthToken(p) ==
    /\ procs[p].pc = "auth_token"
    /\ Step(p, [procs[p] EXCEPT
                   !.pc = "post",
                   !.request = NtfyRequest(procs[p].clean, procs[p].headers,
                                           config.auth_token)])

\* What the handler reports after the response r; logs = FALSE when the
\* host's bot object has no `log` attribute, so that the logging call in the
\* error branch raises, and so does the one in the except clause.
ResponseReply(h, r, logs, d) ==
    IF variant = "NTFY" /\ h.op = "send"
    THEN IF r = TransportError THEN "error"
         ELSE IF IsError(r) THEN "failed" ELSE "success"
    ELSE IF ~Delivered(r) /\ ~logs THEN "raised"
    ELSE IF h.op = "send" THEN SendReport(d, h.ch)
    ELSE "returned"

Response(p) ==
    /\ procs[p].pc = "post"
    /\ \E r \in Responses, logs \in BOOLEAN :
        LET h == [procs[p] EXCEPT !.resp = r]
            d == AfterResponse(last_sent, h.ch, now, r)
        IN  /\ last_sent' = d
            /\ procs' = [procs EXCEPT ![p] = Done(h, ResponseReply(h, r, logs, d))]
    /\ UNCHANGED <<variant, config, now, input, output>>

\* The handler returns to the event loop.
Return(p) ==
    /\ procs[p].pc = "done"
    /\ Step(p, Idle)

\* the listener's bot filter applied to the admin send as well
SendStartBotFiltered(h, enabled, d) ==
    IF ~enabled THEN Done(h, "disabled")
    ELSE IF IsBot(h.author) THEN Done(h, "returned")
    ELSE IF variant = "IFTTT"
         THEN LET clean == sanitise(h.content)
              IN  IF clean = None THEN Done(h, "invalid")
                  ELSE [h EXCEPT !.pc = "rate_limit", !.clean = clean]
         ELSE [h EXCEPT !.pc = "rate_limit", !.snap = Get(d, h.ch)]

\* _cmd_send / send_ntfy up to the first await after the enabled read
SendStart(h, enabled, d) ==
    IF ~enabled THEN Done(h, "disabled")
    ELSE IF variant = "IFTTT"
         THEN LET clean == sanitise(h.content)
              IN  IF clean = None THEN Done(h, "invalid")
                  ELSE [h EXCEPT !.pc = "rate_limit", !.clean = clean]
         ELSE [h EXCEPT !.pc = "rate_limit", !.snap = Get(d, h.ch)]

Send(p, ch, a, c) ==
    /\ FreeSlot(p)
    /\ Step(p, SendStart(
                   [Idle EXCEPT !.op = "send", !.ch = ch, !.author = a,
                                !.content = c],
                   config.enabled, last_sent))

\* _cmd_toggle / ntfy_toggle: `current = await ...enabled()`
Toggle(p) ==
    /\ FreeSlot(p)
    /\ Step(p, [Idle EXCEPT !.op = "toggle", !.pc = "set",
                            !.current = config.enabled])

\* `await ...enabled.set(not current)` and the reply
ToggleSet(p) ==
    /\ procs[p].pc = "set"
    /\ config' = [config EXCEPT !.enabled = ~procs[p].current]
    /\ procs' = [procs EXCEPT ![p] =
                    Done(procs[p], IF ~procs[p].current THEN "enabled"
                                   ELSE "disabled")]
    /\ UNCHANGED <<variant, last_sent, now, input, output>>

\* _cmd_ratelimit / ntfy_ratelimit
CmdRatelimit(seconds) ==
    /\ config' = [config EXCEPT !.rate_limit = Clamp(seconds)]
    /\ UNCHANGED <<variant, last_sent, now, procs, input, output>>

\* _cmd_url / ntfy_url
CmdUrl(url) ==
    /\ config' = IF StartsWithHttps(url)
                 THEN [config EXCEPT !.url = url]
                 ELSE config
    /\ UNCHANGED <<variant, last_sent, now, procs, input, output>>

\* _cmd_allowbot / ntfy_allowbot
CmdAllowbot(user) ==
    /\ config' = IF IsBot(user)
                 THEN [config EXCEPT !.allowed_bot = user]
                 ELSE config
    /\ UNCHANGED <<variant, last_sent, now, procs, input, output>>

\* _cmd_disablebot / ntfy_disablebot
CmdDisablebot ==
    /\ config' = [config EXCEPT !.allowed_bot = NoBot]
    /\ UNCHANGED <<variant, last_sent, now, procs, input, output>>

\* datetime.now() moves on.
Tick ==
    /\ \E t \in Instants : t > now /\ now' = t
    /\ UNCHANGED <<variant, config, last_sent, procs, input, output>>

AllowbotInputs == {1, 3}
SendAuthors == {1, 3}

Next ==
    \/ \E p \in Procs, in_guild \in BOOLEAN, ch \in Channels, a \in Authors,
          c \in MessageTexts :
          OnMessage(p, in_guild, ch, a, c)
    \/ \E p \in Procs : AllowedBot(p)
    \/ \E p \in Procs : GetContext(p)
    \/ \E p \in Procs : SendToNtfyEnabled(p)
    \/ \E p \in Procs : RateLimit(p)
    \/ \E p \in Procs : AllowedBot2(p)
    \/ \E p \in Procs : Url(p)
    \/ \E p \in Procs : Headers(p)
    \/ \E p \in Procs : AuthToken(p)
    \/ \E p \in Procs : Response(p)
    \/ \E p \in Procs : Return(p)
    \/ \E p \in Procs, ch \in Channels, a \in SendAuthors, c \in MessageTexts :
          Send(p, ch, a, c)
    \/ \E p \in Procs : Toggle(p)
    \/ \E p \in Procs : ToggleSet(p)
    \/ \E seconds \in SecondsInputs : CmdRatelimit(seconds)
    \/ \E url \in UrlInputs : CmdUrl(url)
    \/ \E user \in AllowbotInputs : CmdAllowbot(user)
    \/ CmdDisablebot
    \/ Tick

Spec == Init /\ [][Next]_vars

(***************************************************************************)
(* The forwarding model with NTFY's headers and token commands, one        *)
(* handler at a time: the commands run between any two steps of a handler. *)
(***************************************************************************)
\* isinstance(json.loads(headers_json), dict)
HeadersAccepted(text) ==
    json_loads(text).ok /\ json_loads(text).val.type = "dict"

\* The reply of the headers command.
CmdHeadersReply(text) ==
    IF ~json_loads(text).ok THEN "Invalid JSON format."
    ELSE IF json_loads(text).val.type # "dict"
         THEN "Headers must be a dictionary"
    ELSE "Headers updated."

\* ntfy_headers
CmdHeaders(text) ==
    /\ variant = "NTFY"
    /\ config' = IF HeadersAccepted(text)
                 THEN [config EXCEPT !.headers = json_loads(text).val]
                 ELSE config
    /\ UNCHANGED <<variant, last_sent, now, procs, input, output>>

\* ntfy_token
CmdToken(token) ==
    /\ variant = "NTFY"
    /\ config' = [config EXCEPT !.auth_token = token]
    /\ UNCHANGED <<variant, last_sent, now, procs, input, output>>

NextSettings ==
    \/ \E in_guild \in BOOLEAN, ch \in Channels, a \in Authors,
          c \in MessageTexts : OnMessage("h1", in_guild, ch, a, c)
    \/ AllowedBot("h1")
    \/ GetContext("h1")
    \/ SendToNtfyEnabled("h1")
    \/ RateLimit("h1")
    \/ AllowedBot2("h1")
    \/ Url("h1")
    \/ Headers("h1")
    \/ AuthToken("h1")
    \/ Response("h1")
    \/ Return("h1")
    \/ \E ch \in Channels, a \in SendAuthors, c \in MessageTexts :
          Send("h1", ch, a, c)
    \/ Toggle("h1")
    \/ ToggleSet("h1")
    \/ \E seconds \in SecondsInputs : CmdRatelimit(seconds)
    \/ \E url \in UrlInputs : CmdUrl(url)
    \/ \E user \in AllowbotInputs : CmdAllowbot(user)
    \/ CmdDisablebot
    \/ \E text \in HeaderInputs : CmdHeaders(text)
    \/ \E token \in TokenInputs : CmdToken(token)
    \/ Tick

SpecSettings == Init /\ [][NextSettings]_vars


(***************************************************************************)
(* Properties.                                                             *)
(***************************************************************************)
\* Handler p takes the step that handles the response to its POST.
Responds(p) == procs[p].pc = "post" /\ procs'[p].pc = "done"

\* Handler p takes a step.
Moves(p) == procs'[p] # procs[p]

\* C1: in both variants and for both entry points, the registry is written
\* only by the step that handles a response with a status below 400, which
\* stores the current time for that channel; a response with a status of 400
\* or more, or a transport exception, leaves the registry as it was.
C1_RegistryWrittenOnlyOnSuccess ==
    [][/\ last_sent' # last_sent =>
             \E p \in Procs :
                 /\ Responds(p)
                 /\ procs'[p].resp \in Statuses /\ procs'[p].resp < 400
                 /\ procs[p].ch \in DOMAIN last_sent'
                 /\ last_sent'[procs[p].ch] = now
       /\ \A p \in Procs :
             Responds(p) =>
                 IF procs'[p].resp \in Statuses /\ procs'[p].resp < 400
                 THEN Get(last_sent', procs[p].ch) = now
                 ELSE last_sent' = last_sent]_vars

\* A POST was answered with an error status or raised, and the channel has
\* no entry.
C1_Witness ==
    \E p \in Procs :
        /\ procs[p].pc = "done"
        /\ procs[p].resp \in {400, 500, TransportError}
        /\ procs[p].ch \notin DOMAIN last_sent

\* C2: a POST is issued for a channel only when, at that moment, the guild
\* is enabled and the channel has no recorded send or the cooldown since the
\* recorded one has elapsed.
C2_PostOnlyWhenEnabledAndCooledDown ==
    [][\A p \in Procs :
          (procs[p].pc # "post" /\ procs'[p].pc = "post") =>
              /\ config.enabled
              /\ \/ procs[p].ch \notin DOMAIN last_sent
                 \/ now - last_sent[procs[p].ch] >= config.rate_limit]_vars

\* C3: a POST answered with a status below 400 comes at least the configured
\* cooldown after the previous one of the same channel.
C3_DeliveriesSeparatedByCooldown ==
    [][\A p \in Procs :
          (Responds(p) /\ procs'[p].resp \in Statuses /\ procs'[p].resp < 400) =>
              \/ procs[p].ch \notin DOMAIN last_sent
              \/ now - last_sent[procs[p].ch] >= config.rate_limit]_vars

\* C4: no step of a send before its POST is issued, and so no step of a send
\* that is given up (disabled, rate-limited, nothing left after sanitising,
\* no URL, bot filter, command), changes the registry.
C4_AbortLeavesRegistry ==
    [][\A p \in Procs :
          (Moves(p) /\ procs[p].pc # "post") => last_sent' = last_sent]_vars

\* An admin send was given up for the cooldown, with the entry still in place.
C4_Witness ==
    \E p \in Procs :
        /\ procs[p].pc = "done"
        /\ procs[p].op = "send"
        /\ procs[p].resp = NoResponse
        /\ procs[p].reply \in {"rate_limited", "success"}
        /\ procs[p].ch \in DOMAIN last_sent

\* The time of the last send the cooldown check of handler h works with.
LookedUp(h) == IF variant = "IFTTT" THEN Get(last_sent, h.ch) ELSE h.snap

\* C5: with a recorded send at T and cooldown C, the check at time now gives
\* the send up when now - T < C and lets it go on when now - T >= C; without
\* a recorded send it lets it go on.
C5_CooldownCheck ==
    [][\A p \in Procs :
          (procs[p].pc = "rate_limit" /\ Moves(p)) =>
              IF LookedUp(procs[p]) # NoTime
                 /\ now - LookedUp(procs[p]) < config.rate_limit
              THEN /\ procs'[p].pc = "done"
                   /\ procs'[p].reply # "invalid"
              ELSE \/ procs'[p].pc \in {"url", "allowed_bot2"}
                   \/ /\ variant = "NTFY"
                      /\ sanitize_message(procs[p].content) = None
                      /\ procs'[p].pc = "done"
                      /\ procs'[p].reply # "rate_limited"]_vars

\* A send was refused one second before the cooldown ended while another
\* handler has passed the check.
C5_Witness ==
    \E p, q \in Procs :
        /\ procs[p].pc = "done" /\ procs[p].reply = "rate_limited"
        /\ procs[q].pc = "url"
        /\ procs[p].ch \in DOMAIN last_sent
        /\ now - last_sent[procs[p].ch] = config.rate_limit

C7_NoCommandForwarded ==
    \A p \in Procs :
        (procs[p].op = "on_message" /\ procs[p].pc \in {"rate_limit", "enabled",
            "allowed_bot2", "url", "headers", "auth_token", "post"}) =>
            ~procs[p].is_command

\* The listener dropped a command although the guild would forward.
C7_Witness ==
    \E p \in Procs :
        /\ procs[p].op = "on_message" /\ procs[p].pc = "done"
        /\ procs[p].is_command /\ procs[p].reply = "returned"
        /\ config.enabled /\ config.url # <<>> /\ last_sent = <<>>

\* C8: ratelimit with a value below 30 stores 30, with 30 or more stores the
\* value, and the stored value is never below 30.
C8_RatelimitClamp ==
    [][/\ config.rate_limit >= 30 /\ config'.rate_limit >= 30
       /\ \A seconds \in SecondsInputs :
             CmdRatelimit(seconds) =>
                 config'.rate_limit = IF seconds < 30 THEN 30 ELSE seconds]_vars

\* A value above the floor is stored.
C8_Witness == config.rate_limit > 30

\* C9: the sanitiser's output holds no '<', one or more characters other
\* than '>', and '>' in a row.
C9_NoTagInOutput ==
    (output # Pending /\ output # None) =>
        \A i \in 1..Len(output) :
            output[i] = "<" =>
                ~\E q \in (i + 2)..Len(output) :
                     /\ output[q] = ">"
                     /\ \A k \in (i + 1)..(q - 1) : output[k] # ">"

\* A tag inside angle brackets: removing "<<a>" leaves "a>".
C9_Witness ==
    /\ input = <<"<", "<", "a", ">", "a", ">">>
    /\ output = <<"a", ">">>

\* Position k of s is whitespace or lies in a tag.
InTagOrSpace(s, k) ==
    \/ s[k] \in Whitespace
    \/ \E i \in 1..k :
          /\ s[i] = "<"
          /\ \E q \in k..Len(s) :
                /\ q >= i + 2
                /\ s[q] = ">"
                /\ \A m \in (i + 1)..(q - 1) : s[m] # ">"

\* C10: the sanitiser returns None or a non-empty text of at most 2000
\* characters without two whitespace characters in a row, and None exactly
\* for an absent or empty input or one made of whitespace and tags only.
C10_OutputShape ==
    output # Pending =>
        /\ output # None =>
              /\ Len(output) >= 1
              /\ Len(output) <= 2000
              /\ \A i \in 1..(Len(output) - 1) :
                    ~(output[i] \in Whitespace /\ output[i + 1] \in Whitespace)
        /\ output = None <=>
              \/ input = None
              \/ \A k \in 1..Len(input) : InTagOrSpace(input, k)

\* An input longer than the limit was cut to it.
C10_Witness ==
    /\ input # None /\ output # Pending
    /\ Len(input) > 2000 /\ Len(output) = 2000

\* C18: a channel that has an entry in the registry keeps one, and with a
\* clock that never goes back the stored time never decreases, also when
\* several sends of the channel are in flight and end in any order.
C18_RegistryGrows ==
    [][/\ now' >= now
       /\ \A ch \in DOMAIN last_sent :
             /\ ch \in DOMAIN last_sent'
             /\ last_sent'[ch] >= last_sent[ch]]_vars

\* Two sends of one channel were in flight together; one was recorded, the
\* clock went on, and the other then failed with the entry left in place.
C18_Witness ==
    \E p, q \in Procs :
        /\ procs[p].pc = "done" /\ procs[p].resp = 200
        /\ procs[q].pc = "done" /\ procs[q].resp \in {500, TransportError}
        /\ procs[p].ch = procs[q].ch
        /\ procs[p].ch \in DOMAIN last_sent
        /\ last_sent[procs[p].ch] < now

\* C19: every toggle that completes flips the enabled flag and reports the
\* state it stored, so that after n completed toggles the flag is the one
\* at the start for even n and its negation for odd n, also when one toggle
\* reads the flag while another is suspended between its read and its write.
C19_ToggleFlips ==
    [][\A p \in Procs :
          (procs[p].pc = "set" /\ procs'[p].pc = "done") =>
              /\ config'.enabled = ~config.enabled
              /\ procs'[p].reply =
                     IF config'.enabled THEN "enabled" ELSE "disabled"]_vars

\* C20 as stated: whenever the sanitiser returns a text, sanitising that
\* text again returns the same text, for inputs cut at the length limit too.
C20_Idempotent ==
    (output # Pending /\ output # None) => Sanitize(variant, output) = output

\* C20, amended: whenever the sanitiser returns a text that does not end in
\* a space, sanitising that text again returns the same text; a returned
\* text ends in a space only when the cut at the length limit fell right
\* after a word, and sanitising it again removes just that space.
C20_IdempotentUnlessCutAtSpace ==
    (output # Pending /\ output # None) =>
        IF output[Len(output)] # " "
        THEN Sanitize(variant, output) = output
        ELSE /\ Len(output) = 2000
             /\ Sanitize(variant, output) = SubSeq(output, 1, 1999)

\* An input longer than the limit was cut inside a word, after its white
\* space had been collapsed.
C20_Witness ==
    /\ input # None /\ output # Pending /\ output # None
    /\ Len(input) > 2000 /\ Len(output) = 2000
    /\ \E i \in 1..Len(input) : input[i] \in Whitespace
    /\ output[2000] # " "

\* C12: the IFTTT admin send reports success only when the POST of this very
\* invocation was answered with a status below 400, and reports "not sent"
\* when it was rate-limited, had no URL, or its POST failed, whatever was
\* sent to the channel before.
C12_SendReportsOwnOutcome ==
    \A p \in Procs :
        (variant = "IFTTT" /\ procs[p].op = "send" /\ procs[p].pc = "done"
         /\ procs[p].reply \in {"success", "not_sent"}) =>
            (procs[p].reply = "success" <=>
                 (procs[p].resp \in Statuses /\ procs[p].resp < 400))

\* C13: the listener always ends by returning normally without a message to
\* the chat: no exception leaves it, and a POST answered with a status of
\* 400 or more or ended by a transport exception costs a log entry only.
C13_ListenerReturnsSilently ==
    \A p \in Procs :
        (procs[p].op = "on_message" /\ procs[p].pc = "done") =>
            procs[p].reply = "returned"

\* C14: the url command stores its argument only when it starts with
\* "https://" and otherwise leaves the setting alone and replies with an
\* error; the stored URL is empty or starts with "https://" in every state,
\* and no POST is in flight to a URL that does not.
C14_UrlHttpsOnly ==
    [][LET prefix == <<"h", "t", "t", "p", "s", ":", "/", "/">>
           https(u) == Len(u) >= 8 /\ \A i \in 1..8 : u[i] = prefix[i]
       IN  /\ config.url = <<>> \/ https(config.url)
           /\ config'.url = <<>> \/ https(config'.url)
           /\ \A p \in Procs :
                 procs'[p].pc = "post" => https(procs'[p].url)
           /\ \A url \in UrlInputs :
                 CmdUrl(url) =>
                     IF https(url)
                     THEN config'.url = url /\ CmdUrlReply(url) = "info"
                     ELSE config' = config /\ CmdUrlReply(url) = "error"]_vars

\* A POST is in flight to the https URL that was stored.
C14_Witness ==
    /\ config.url = HttpsUrl
    /\ \E p \in Procs : procs[p].pc = "post" /\ procs[p].url = HttpsUrl

\* C16: an admin send issues its POST only when its own four checks passed
\* (guild enabled when it read the flag, cooldown check passed, a text left
\* after sanitising, a URL set), and it never meets the bot filter or the
\* command filter: a disabled guild and a running cooldown end it, and with
\* the guild enabled it goes on whoever the author is.
C16_SendChecks ==
    [][\A p \in Procs :
          /\ procs'[p].op = "send" =>
                procs'[p].pc \notin
                    {"allowed_bot", "allowed_bot2", "get_context", "enabled"}
          /\ (procs[p].pc = "idle" /\ procs'[p].op = "send") =>
                IF ~config.enabled
                THEN procs'[p].pc = "done" /\ procs'[p].reply = "disabled"
                ELSE \/ procs'[p].pc = "rate_limit"
                     \/ /\ procs'[p].pc = "done"
                        /\ procs'[p].reply = "invalid"
          /\ (procs[p].op = "send" /\ procs[p].pc = "rate_limit" /\ Moves(p)
              /\ LookedUp(procs[p]) # NoTime
              /\ now - LookedUp(procs[p]) < config.rate_limit) =>
                procs'[p].pc = "done"
          /\ (procs'[p].op = "send" /\ procs'[p].pc = "url"
              /\ procs[p].pc # "url") =>
                procs[p].pc = "rate_limit"
          /\ (procs'[p].op = "send" /\ procs'[p].pc \in {"headers", "post"}
              /\ procs[p].pc \notin {"headers", "auth_token", "post"}) =>
                /\ procs[p].pc = "url"
                /\ config.url # <<>>
                /\ procs'[p].url = config.url
          /\ (procs'[p].op = "send" /\ procs'[p].pc = "post"
              /\ procs[p].pc # "post") =>
                /\ procs[p].pc = IF variant = "IFTTT"
                                 THEN "url" ELSE "auth_token"
                /\ procs'[p].url # <<>>
                /\ procs'[p].clean # None
                /\ procs'[p].clean = Sanitize(variant, procs'[p].content)]_vars

\* The POST of an admin send written by a bot is in flight although that
\* bot is not the allowed one.
C16_Witness ==
    \E p \in Procs :
        /\ procs[p].op = "send" /\ procs[p].pc = "post"
        /\ IsBot(procs[p].author)
        /\ config.allowed_bot # procs[p].author

\* C11: every POST carries the sanitiser's output for the message being
\* forwarded.  IFTTT sends the JSON object with value1 the guild's name,
\* value2 the author's display name and value3 the sanitised text.  NTFY
\* sends the sanitised text as the body, with the custom headers it read
\* from the settings, and with Authorization: Bearer <token> set exactly
\* when the token it reads is not empty.
C11_PostCarriesSanitisedText ==
    [][\A p \in Procs :
          /\ (procs[p].pc = "headers" /\ Moves(p)) =>
                procs'[p].headers = config.headers.items
          /\ (procs'[p].pc = "post" /\ procs[p].pc # "post") =>
                LET req == procs'[p].request
                    H == req.headers
                    C == procs[p].headers
                    bearer == [type |-> "str", items |-> <<>>,
                               s |-> "Bearer " \o config.auth_token]
                IN  IF variant = "IFTTT"
                    THEN /\ req.json.value1 = "guild"
                         /\ req.json.value2 = <<"member", procs[p].author>>
                         /\ req.json.value3 = sanitise(procs[p].content)
                         /\ req.json.value3 # None
                         /\ req.data = None /\ H = <<>>
                    ELSE /\ req.data = sanitize_message(procs[p].content)
                         /\ req.data # None
                         /\ req.json = NoJson
                         /\ IF config.auth_token = ""
                            THEN H = C
                            ELSE /\ \E j \in 1..Len(H) :
                                       H[j] = <<"Authorization", bearer>>
                                 /\ \A j \in 1..Len(H) :
                                       \/ H[j] = <<"Authorization", bearer>>
                                       \/ /\ H[j][1] # "Authorization"
                                          /\ \E i \in 1..Len(C) : C[i] = H[j]
                                 /\ \A i \in 1..Len(C) :
                                       \/ C[i][1] = "Authorization"
                                       \/ \E j \in 1..Len(H) : H[j] = C[i]]_vars

\* An NTFY POST is in flight with the custom Title header and the token in
\* the place of the custom Authorization header.
C11_Witness ==
    \E p \in Procs :
        /\ variant = "NTFY" /\ procs[p].pc = "post"
        /\ procs[p].request.data = <<"h", " ", "i">>
        /\ procs[p].request.headers =
               <<<<"Title", JStr("x")>>,
                 <<"Authorization", JStr("Bearer tk")>>>>

\* C15: the headers command stores its argument only when it parses as a
\* flat JSON object of strings to strings; for any other argument (not
\* JSON, not an object, an object with a nested or non-string value) it
\* replies with an error and leaves the stored headers as they were, so
\* the stored headers are a string-to-string mapping in every state.
C15_HeadersFlatOnly ==
    [][LET flat(v) == /\ v.type = "dict"
                      /\ \A i \in 1..Len(v.items) : v.items[i][2].type = "str"
       IN  /\ flat(config.headers)
           /\ flat(config'.headers)
           /\ \A text \in HeaderInputs :
                 CmdHeaders(text) =>
                     IF json_loads(text).ok /\ flat(json_loads(text).val)
                     THEN /\ config'.headers = json_loads(text).val
                          /\ CmdHeadersReply(text) = "Headers updated."
                     ELSE /\ config' = config
                          /\ CmdHeadersReply(text) # "Headers updated."]_vars

(***************************************************************************)
(* The forwarding model with the fairness a POST's completion rests on: a  *)
(* POST given a timeout ends, and a handler that has finished returns to   *)
(* the event loop.  Only IFTTT passes a timeout to session.post; nothing   *)
(* in NTFY ends a POST that is never answered.                             *)
(***************************************************************************)
\* A step of handler p other than the end of its POST: the await it is
\* suspended in (a settings read, the return to the event loop) completes.
HandlerStep(p) ==
    \/ AllowedBot(p)
    \/ GetContext(p)
    \/ SendToNtfyEnabled(p)
    \/ RateLimit(p)
    \/ AllowedBot2(p)
    \/ Url(p)
    \/ Headers(p)
    \/ AuthToken(p)
    \/ ToggleSet(p)
    \/ Return(p)

\* session.post(url, json=payload, timeout=15): answered, failed or timed out
BoundedResponse(p) == variant = "IFTTT" /\ Response(p)

\* One handler at a time, with the url and allowbot commands only.
NextLive ==
    \/ \E in_guild \in BOOLEAN, ch \in Channels, a \in Authors,
          c \in MessageTexts : OnMessage("h1", in_guild, ch, a, c)
    \/ \E ch \in Channels, a \in SendAuthors, c \in MessageTexts :
          Send("h1", ch, a, c)
    \/ Toggle("h1")
    \/ HandlerStep("h1")
    \/ Response("h1")
    \/ \E url \in UrlInputs : CmdUrl(url)
    \/ \E user \in AllowbotInputs : CmdAllowbot(user)
    \/ Tick

SpecLive ==
    /\ Init
    /\ [][NextLive]_vars
    /\ WF_vars(BoundedResponse("h1"))
    /\ WF_vars(Return("h1"))

\* C17: every forward that issues a POST completes and returns control,
\* also when the destination never answers.
C17_PostCompletes ==
    \A p \in Procs : (procs[p].pc = "post") ~> (procs[p].pc = "done")

====
